---- MODULE Spec2Model ----
(***************************************************************************)
(* Job orchestration of the transcription service: the job rows of the     *)
(* database, the Celery task queue, the executions of the task             *)
(* process_transcription, the progress callback, cancel_job and the        *)
(* webhook events the task emits.                                          *)
(*                                                                         *)
(* A task execution works on an ORM session: the row is read when an       *)
(* expired attribute is first touched and a commit issues an UPDATE of     *)
(* the columns whose assigned value differs from the value read.  The      *)
(* field "snap" of an execution is that read copy of the row.              *)
(*                                                                         *)
(* Spec is the job machine with each task message delivered once, SpecDup  *)
(* adds redelivery of a message and SpecLimit the time limits of a task.   *)
(* SpecHook follows one call of send_webhook attempt by attempt, and       *)
(* SpecGate the requests of the API through the rate limit middleware.     *)
(* SpecEnhanced is the job machine with requests for Enhanced AI jobs.     *)
(* SpecRate follows concurrent requests through the rate limit middleware  *)
(* line by line, with the clock.  SpecSubmit takes a submission in two     *)
(* steps, the commit of the row and the enqueuing of the task.             *)
(* SpecFair is the job machine under a fair broker and fair workers.       *)
(***************************************************************************)
EXTENDS Integers, Sequences, FiniteSets, Bags, TLC

\* ---- bounds of the model ------------------------------------------------
MaxJobs == 1
MaxDup == 1
MaxEnhanced == 1
MaxRequests == 2
MaxTicks == 3

\* ---- program constants --------------------------------------------------
MAX_RETRY_ATTEMPTS == 3

PENDING == "pending"
PROCESSING == "processing"
COMPLETED == "completed"
FAILED == "failed"
CANCELLED == "cancelled"

JobStatus == {PENDING, PROCESSING, COMPLETED, FAILED, CANCELLED}

NULL == "NULL"

\* a DateTime column that holds no value
NoTime == 0

JobIds == 1 .. MaxJobs
\* a path parameter that uuid.UUID() rejects
MalformedId == 0
RequestIds == JobIds \cup {MalformedId}

WebhookUrls == {NULL, "https://hook"}
RecordingIds == {"rec_1"}
Results == {"result"}
Errors == {"boom"}

\* response is the answer of the step just taken when that step handled an
\* HTTP request, and NoResponse after any other step; returned is the value
\* send_webhook returned to the task in the step just taken, NoCall after
\* any other step; hook is one call of send_webhook followed attempt by
\* attempt; rate_limit_storage is the count of the rate limiter per API key
VARIABLES jobs, nextId, queue, execs, webhooks, response, dups,
          enhanced_ai_jobs, returned, hook, rate_limit_storage,
          rate_limit_timestamp, rate_limit_lock, requests, now

\* what only the requests that pass the middleware line by line change: the
\* time stored with the count of a key, the lock, the requests in flight and
\* the clock
limiter == <<rate_limit_timestamp, rate_limit_lock, requests, now>>

vars == <<jobs, nextId, queue, execs, webhooks, response, dups,
          enhanced_ai_jobs, returned, hook, rate_limit_storage, limiter>>

NoResponse == [op |-> "none", id |-> MalformedId, code |-> 0]

\* the values of returned: Python's True and False, and no call made
True == "True"
False == "False"
NoCall == "none"

\* ---- the job table ------------------------------------------------------
\* a row of transcription_jobs, with the column defaults
TranscriptionJob(url, rec) ==
    [status |-> PENDING, progress |-> 0, retry_count |-> 0,
     result |-> NULL, transcription_text |-> NULL, error_message |-> NULL,
     webhook_url |-> url, recording_id |-> rec, started_at |-> NoTime,
     completed_at |-> NoTime]

\* JobService.get_job finds a row: not for a malformed or an unknown id
Found(id) == id \in JobIds /\ id \in DOMAIN jobs

\* Session.commit: UPDATE of the columns assigned a value that differs from
\* the value the session read
Flush(row, snap, assigned) ==
    [f \in DOMAIN row |->
        IF f \in DOMAIN assigned /\ assigned[f] # snap[f]
        THEN assigned[f] ELSE row[f]]

\* extract_transcription_text as the task calls it: on the result dict, not on
\* its segments, so the parts joined are the keys of the dict
extract_transcription_text(result) ==
    IF result = NULL THEN NULL ELSE "segments text language"

\* ---- bags of messages and executions ------------------------------------
Put(bag, x) == bag (+) SetToBag({x})
Take(bag, x) == bag (-) SetToBag({x})

\* a task message: the job, request.retries and the countdown in seconds
Task(job, retries, countdown) ==
    [job |-> job, retries |-> retries, countdown |-> countdown]

\* ---- the webhook notifier -----------------------------------------------
\* WebhookService.send_webhook: the payload posted, nothing without a url
PayloadAllFields(rec, status, text, error) ==
    [recording_id |-> rec, status |-> status, timestamp |-> NULL,
     transcription |-> text, error |-> error]

Payload(rec, status, text, error) ==
    [recording_id |-> rec, status |-> status, timestamp |-> NULL]
      @@ (IF text # NULL THEN [transcription |-> text] ELSE <<>>)
      @@ (IF error # NULL THEN [error |-> error] ELSE <<>>)

send_webhook_any(sent, id, url, rec, status, text, error) ==
    Put(sent, [job |-> id, payload |-> Payload(rec, status, text, error)])

send_webhook(sent, id, url, rec, status, text, error) ==
    IF url = NULL THEN sent
    ELSE Put(sent, [job |-> id, payload |-> Payload(rec, status, text, error)])

\* what send_webhook can return to the task: False without a url (lines
\* 49-50), otherwise True or False as the attempts go
Returns(url) == IF url = NULL THEN {False} ELSE {True, False}

\* ---- one call of send_webhook, attempt by attempt -----------------------
DEFAULT_MAX_ATTEMPTS == 3

\* requests.post ends without a response (timeout, connection error)
NoAnswer == 0

\* what one requests.post ends with: NoAnswer or the status code of the
\* response
Answers == {NoAnswer, 200, 204, 304, 404, 500}

\* Response.raise_for_status raises for a 4xx or 5xx status
raise_for_status(code) == code \in 400 .. 599

\* the body of the try raises: lines 85-91
AttemptFails(code) == code = NoAnswer \/ raise_for_status(code)

\* settings.WEBHOOK_SECRET and the environment variables
\* IVRIT_WEBHOOK_SECRET and VERCEL_AUTOMATION_BYPASS_SECRET, '' when unset
SecretSettings == {NULL, "secret_1"}
EnvSecrets == {"", "secret_2"}
BypassTokens == {"", "token_1"}

\* WebhookService.__init__
WebhookService(setting, env, token) ==
    [webhook_secret |-> IF setting \in {NULL, ""} THEN env ELSE setting,
     vercel_bypass_token |-> token]

\* json.dumps of a payload: the members in the order of their insertion
PayloadKeys ==
    <<"recording_id", "status", "timestamp", "transcription", "error">>

json_dumps(payload) ==
    LET keys == SelectSeq(PayloadKeys, LAMBDA k : k \in DOMAIN payload)
    IN  [i \in 1 .. Len(keys) |-> <<keys[i], payload[keys[i]]>>]

\* hmac.new(key, msg, hashlib.sha256).hexdigest(), kept symbolic
hexdigest(key, msg) == [key |-> key, msg |-> msg]

\* the headers of the request: lines 64-80
HeadersSignStatus(self, payload) ==
    ("Content-Type" :> "application/json")
      @@ (IF self.vercel_bypass_token # ""
          THEN ("x-vercel-protection-bypass" :> self.vercel_bypass_token)
          ELSE <<>>)
      @@ (IF self.webhook_secret # ""
          THEN ("X-Webhook-Signature" :>
                    hexdigest(self.webhook_secret, <<payload.status>>))
          ELSE <<>>)

Headers(self, payload) ==
    ("Content-Type" :> "application/json")
      @@ (IF self.vercel_bypass_token # ""
          THEN ("x-vercel-protection-bypass" :> self.vercel_bypass_token)
          ELSE <<>>)
      @@ (IF self.webhook_secret # ""
          THEN ("X-Webhook-Signature" :>
                    hexdigest(self.webhook_secret, json_dumps(payload)))
          ELSE <<>>)

\* requests.post(webhook_url, json=payload, headers=headers): the body is
\* the payload serialised by json.dumps
Post(code, payload, headers) ==
    [ev |-> "post", code |-> code, body |-> json_dumps(payload),
     headers |-> headers]

Sleep == [ev |-> "sleep", code |-> NoAnswer]

NoHook == [pc |-> "idle", url |-> NULL, max_attempts |-> 0, attempt |-> 0,
           log |-> <<>>, ret |-> NoCall, setting |-> NULL, env |-> "",
           payload |-> <<>>, headers |-> <<>>]

\* send_webhook is called: lines 49-50 and the first turn of the loop
HookCall(setting, env, token, url, rec, status, text, error, max_attempts) ==
    /\ hook.pc = "idle"
    /\ LET self == WebhookService(setting, env, token)
           payload == Payload(rec, status, text, error)
           called == [hook EXCEPT !.url = url, !.max_attempts = max_attempts,
                                  !.setting = setting, !.env = env]
       IN  hook' = IF url = NULL
                   THEN [called EXCEPT !.pc = "returned", !.ret = False]
                   ELSE IF max_attempts < 1
                   THEN [called EXCEPT !.pc = "returned", !.ret = False,
                                       !.payload = payload,
                                       !.headers = Headers(self, payload)]
                   ELSE [called EXCEPT !.pc = "post", !.attempt = 1,
                                       !.payload = payload,
                                       !.headers = Headers(self, payload)]
    /\ UNCHANGED <<jobs, nextId, queue, execs, webhooks, response, dups,
                   enhanced_ai_jobs, limiter, returned, rate_limit_storage>>

\* one attempt, lines 84-102: return True unless the try raised; after the
\* last attempt the loop ends and line 108 returns False
HookPost(code) ==
    /\ hook.pc = "post"
    /\ hook' = IF ~AttemptFails(code)
               THEN [hook EXCEPT !.pc = "returned", !.ret = True,
                                 !.log = Append(@, Post(code, hook.payload, hook.headers))]
               ELSE IF hook.attempt < hook.max_attempts
               THEN [hook EXCEPT !.pc = "sleep", !.log = Append(@, Post(code, hook.payload, hook.headers))]
               ELSE [hook EXCEPT !.pc = "returned", !.ret = False,
                                 !.log = Append(@, Post(code, hook.payload, hook.headers))]
    /\ UNCHANGED <<jobs, nextId, queue, execs, webhooks, response, dups,
                   enhanced_ai_jobs, limiter, returned, rate_limit_storage>>

\* time.sleep(1) and the next turn of the loop: lines 105-106, 83
HookSleep ==
    /\ hook.pc = "sleep"
    /\ hook' = [hook EXCEPT !.pc = "post", !.attempt = @ + 1,
                            !.log = Append(@, Sleep)]
    /\ UNCHANGED <<jobs, nextId, queue, execs, webhooks, response, dups,
                   enhanced_ai_jobs, limiter, returned, rate_limit_storage>>

\* ---- the rate limiter --------------------------------------------------
RATE_LIMIT_REQUESTS == 100
RATE_LIMIT_PERIOD == 3600

ApiKeys == {"key_1", "key_2"}

\* the clock, datetime.utcnow() in seconds: where it starts and how far one
\* tick moves it
Epoch == 1
TickSeconds == 1800

\* the requests that pass the middleware line by line
Requests == 1 .. MaxRequests
Paths == {"/health", "/api/v1/jobs"}

\* no request holds rate_limit_lock
NoHolder == 0

\* a request not yet made; count and timestamp are the local variables of
\* the middleware, job is the id of the row the submit handler has created
NoRequest == [pc |-> "idle", path |-> NULL, api_key |-> NULL, count |-> 0,
              timestamp |-> NoTime, job |-> MalformedId]

\* ---- initial state ------------------------------------------------------
Init ==
    /\ jobs = <<>>
    /\ nextId = 1
    /\ queue = EmptyBag
    /\ execs = EmptyBag
    /\ webhooks = EmptyBag
    /\ response = NoResponse
    /\ dups = 0
    /\ enhanced_ai_jobs = <<>>
    /\ returned = NoCall
    /\ hook = NoHook
    /\ rate_limit_storage = [k \in ApiKeys |-> 0]
    /\ rate_limit_timestamp = [k \in ApiKeys |-> NoTime]
    /\ rate_limit_lock = NoHolder
    /\ requests = [r \in Requests |-> NoRequest]
    /\ now = Epoch

\* ---- submission ---------------------------------------------------------
\* submit_transcription_task: apply_async with task_id = job id
submit_transcription_task(q, id) == Put(q, Task(id, 0, 0))

\* the engines a request body may name, and one it may not
TranscriptionEngine == {"faster-whisper", "stable-whisper"}
EngineNames == TranscriptionEngine \cup {"whisperx"}

\* the field url of a request body
AudioUrls == {NULL, "https://example.com/audio.mp3"}

\* the example of the request model
ExampleEngine == "faster-whisper"
ExampleUrl == "https://example.com/audio.mp3"

\* the answer of the handler: 500 from the except clause
SubmitCodeSwallowed(brokerUp) == 200

SubmitCode(brokerUp) == IF brokerUp THEN 200 ELSE 500

\* POST /api/v1/transcribe. A body whose engine is not a TranscriptionEngine
\* fails the validation of TranscriptionJobCreate and is answered 422 before
\* the handler runs; url and file_upload are optional and nothing relates
\* them. The handler commits the row, then enqueues the task; an unreachable
\* broker makes apply_async raise and the handler answer 500. The columns
\* audio_url and filename are not modelled.
create_transcription_job(engine, audio, upload, url, rec, brokerUp) ==
    /\ IF engine \notin TranscriptionEngine
       THEN /\ response' = [op |-> "submit", id |-> MalformedId, code |-> 422]
            /\ UNCHANGED <<jobs, nextId, queue>>
       ELSE /\ nextId \in JobIds
            /\ jobs' = (nextId :> TranscriptionJob(url, rec)) @@ jobs
            /\ nextId' = nextId + 1
            /\ queue' = IF brokerUp THEN submit_transcription_task(queue, nextId)
                        ELSE queue
            /\ response' = [op |-> "submit", id |-> nextId,
                            code |-> SubmitCode(brokerUp)]
    /\ returned' = NoCall
    /\ UNCHANGED <<execs, webhooks, dups, enhanced_ai_jobs, limiter, hook>>

\* ---- submission, statement by statement ----------------------------------
\* the handler enqueues the task and creates no row before
CreateRowLate(r, url, rec) ==
    /\ requests[r].pc = "idle"
    /\ nextId \in JobIds
    /\ queue' = submit_transcription_task(queue, nextId)
    /\ nextId' = nextId + 1
    /\ requests' = [requests EXCEPT ![r] =
            [@ EXCEPT !.pc = "created", !.path = "/api/v1/transcribe",
                      !.job = nextId]]
    /\ response' = NoResponse
    /\ returned' = NoCall
    /\ UNCHANGED <<jobs, execs, webhooks, dups, enhanced_ai_jobs, hook,
                   rate_limit_storage, rate_limit_timestamp, rate_limit_lock,
                   now>>

\* JobService.create_transcription_job as the handler calls it: the row is
\* added and committed, and the handler holds it as job
CreateRow(r, url, rec) ==
    /\ requests[r].pc = "idle"
    /\ nextId \in JobIds
    /\ jobs' = (nextId :> TranscriptionJob(url, rec)) @@ jobs
    /\ nextId' = nextId + 1
    /\ requests' = [requests EXCEPT ![r] =
            [@ EXCEPT !.pc = "created", !.path = "/api/v1/transcribe",
                      !.job = nextId]]
    /\ response' = NoResponse
    /\ returned' = NoCall
    /\ UNCHANGED <<queue, execs, webhooks, dups, enhanced_ai_jobs, hook,
                   rate_limit_storage, rate_limit_timestamp, rate_limit_lock,
                   now>>

\* submit_transcription_task(job.id, ...) and the answer of the handler
Dispatch(r, brokerUp) ==
    /\ requests[r].pc = "created"
    /\ queue' = IF brokerUp
                THEN submit_transcription_task(queue, requests[r].job)
                ELSE queue
    /\ requests' = [requests EXCEPT ![r].pc = "done"]
    /\ response' = [op |-> "submit", id |-> requests[r].job,
                    code |-> SubmitCode(brokerUp)]
    /\ returned' = NoCall
    /\ UNCHANGED <<jobs, nextId, execs, webhooks, dups, enhanced_ai_jobs, hook,
                   rate_limit_storage, rate_limit_timestamp, rate_limit_lock,
                   now>>

\* ---- the task process_transcription -------------------------------------
\* the progress values transcribe() reports, in order: 10, then 30, then
\* min(30 + 2n, 90) after every tenth segment, and 90 at the end (a
\* diarized run reports 10 and 90 only)
ProgressValues == {10, 30, 50, 70, 90}

NextProgress(cb) ==
    IF cb = 0 THEN {10}
    ELSE IF cb = 10 THEN {30, 90}
    ELSE IF cb < 90 THEN {cb + 20, 90}
    ELSE {90}

\* update_job_progress: stores the reported value in the row, if there is one
update_job_progress(id, progress) ==
    IF Found(id) THEN [jobs EXCEPT ![id].progress = progress] ELSE jobs

\* an execution of the task: its message, its position, the row as its
\* session read it, the last progress reported and the local variable
\* transcription_text or str(e)
Exec(m, pc, snap, cb, local) ==
    [job |-> m.job, retries |-> m.retries, pc |-> pc, snap |-> snap,
     cb |-> cb, local |-> local]

Step(e, pc, snap, local) == Exec(e, pc, snap, e.cb, local)

\* time.time() as an attempt reads it: attempts of a job are at least a
\* retry countdown apart, so a later attempt reads a later time
time(m) == m.retries + 1

\* the assignments of lines 70-72, 100-105 and 125-128
StartedColumns(m) == [status |-> PROCESSING, started_at |-> time(m)]

CompletedColumns(e, result) ==
    [status |-> COMPLETED, completed_at |-> time(e), result |-> result,
     transcription_text |-> extract_transcription_text(result), progress |-> 100]

FailedColumns(snap, error) ==
    [status |-> FAILED, error_message |-> error,
     retry_count |-> snap.retry_count + 1]

\* a worker takes a task: the row is read, set PROCESSING and committed, and
\* read again for the webhook arguments (lines 64-77, one step: nothing
\* blocks between them); without a row the task returns at once
Start(m) ==
    /\ BagIn(m, queue)
    /\ queue' = Take(queue, m)
    /\ IF Found(m.job)
       THEN LET row == Flush(jobs[m.job], jobs[m.job], StartedColumns(m))
            IN  /\ jobs' = [jobs EXCEPT ![m.job] = row]
                /\ execs' = Put(execs, Exec(m, "started", row, 0, NULL))
       ELSE UNCHANGED <<jobs, execs>>
    /\ response' = NoResponse
    /\ returned' = NoCall
    /\ UNCHANGED <<nextId, webhooks, dups, enhanced_ai_jobs, limiter,
                   hook, rate_limit_storage>>

\* the 'transcribing' webhook, then transcribe() is entered; the task does
\* not look at what send_webhook returns
NotifyStartedChecked(e, ret) ==
    /\ BagIn(e, execs) /\ e.pc = "started"
    /\ ret \in Returns(e.snap.webhook_url)
    /\ returned' = ret
    /\ webhooks' = send_webhook(webhooks, e.job, e.snap.webhook_url,
                                e.snap.recording_id, "transcribing", NULL, NULL)
    /\ IF ret = True \/ e.snap.webhook_url = NULL
       THEN /\ execs' = Put(Take(execs, e), Step(e, "transcribing", e.snap, NULL))
            /\ UNCHANGED jobs
       ELSE /\ jobs' = [jobs EXCEPT ![e.job] =
                            Flush(@, e.snap, FailedColumns(e.snap, "undelivered"))]
            /\ execs' = Put(Take(execs, e),
                            Step(e, "failed", jobs'[e.job], "undelivered"))
    /\ response' = NoResponse
    /\ UNCHANGED <<nextId, queue, dups, enhanced_ai_jobs, limiter,
                   hook, rate_limit_storage>>

NotifyStarted(e, ret) ==
    /\ BagIn(e, execs) /\ e.pc = "started"
    /\ ret \in Returns(e.snap.webhook_url)
    /\ returned' = ret
    /\ webhooks' = send_webhook(webhooks, e.job, e.snap.webhook_url,
                                e.snap.recording_id, "transcribing", NULL, NULL)
    /\ execs' = Put(Take(execs, e), Step(e, "transcribing", e.snap, NULL))
    /\ response' = NoResponse
    /\ UNCHANGED <<jobs, nextId, queue, dups, enhanced_ai_jobs, limiter,
                   hook, rate_limit_storage>>

\* progress_callback inside transcribe()
Progress(e, p) ==
    /\ BagIn(e, execs) /\ e.pc = "transcribing"
    /\ p \in NextProgress(e.cb)
    /\ jobs' = update_job_progress(e.job, p)
    /\ execs' = Put(Take(execs, e), Exec(e, "transcribing", e.snap, p, NULL))
    /\ response' = NoResponse
    /\ returned' = NoCall
    /\ UNCHANGED <<nextId, queue, webhooks, dups, enhanced_ai_jobs, limiter,
                   hook, rate_limit_storage>>

\* transcribe() returns: lines 96-105
CompleteNotifyFirst(e, result) ==
    /\ BagIn(e, execs) /\ e.pc = "transcribing" /\ e.cb = 90
    /\ execs' = Put(Take(execs, e), Step(e, "completed", e.snap,
                                        extract_transcription_text(result)))
    /\ response' = NoResponse
    /\ returned' = NoCall
    /\ UNCHANGED <<jobs, nextId, queue, webhooks, dups, enhanced_ai_jobs, limiter,
                   hook, rate_limit_storage>>

Complete(e, result) ==
    /\ BagIn(e, execs) /\ e.pc = "transcribing" /\ e.cb = 90
    /\ jobs' = [jobs EXCEPT ![e.job] = Flush(@, e.snap, CompletedColumns(e, result))]
    /\ execs' = Put(Take(execs, e), Step(e, "completed", jobs'[e.job],
                                        extract_transcription_text(result)))
    /\ response' = NoResponse
    /\ returned' = NoCall
    /\ UNCHANGED <<nextId, queue, webhooks, dups, enhanced_ai_jobs, limiter,
                   hook, rate_limit_storage>>

\* the 'transcribed' webhook; the task returns
NotifyCompleted(e, ret) ==
    /\ BagIn(e, execs) /\ e.pc = "completed"
    /\ ret \in Returns(e.snap.webhook_url)
    /\ returned' = ret
    /\ webhooks' = send_webhook(webhooks, e.job, e.snap.webhook_url,
                                e.snap.recording_id, "transcribed", e.local, NULL)
    /\ execs' = Take(execs, e)
    /\ response' = NoResponse
    /\ UNCHANGED <<jobs, nextId, queue, dups, enhanced_ai_jobs, limiter,
                   hook, rate_limit_storage>>

\* transcribe() raises: lines 119-128; the row object is the one the session
\* already holds, so retry_count + 1 is computed from the value it read
Fail(e, error) ==
    /\ BagIn(e, execs) /\ e.pc = "transcribing"
    /\ jobs' = [jobs EXCEPT ![e.job] = Flush(@, e.snap, FailedColumns(e.snap, error))]
    /\ execs' = Put(Take(execs, e), Step(e, "failed", jobs'[e.job], error))
    /\ response' = NoResponse
    /\ returned' = NoCall
    /\ UNCHANGED <<nextId, queue, webhooks, dups, enhanced_ai_jobs, limiter,
                   hook, rate_limit_storage>>

\* the countdown of self.retry: line 142
Countdown(retry_count) == 60 * retry_count

\* only the max_retries of the task decorator decides
ShouldRetryCelery(retry_count, retries) ==
    retries + 1 <= MAX_RETRY_ATTEMPTS

\* line 140, and Task.retry, which re-raises once request.retries has
\* reached max_retries
ShouldRetry(retry_count, retries) ==
    retry_count < MAX_RETRY_ATTEMPTS /\ retries + 1 <= MAX_RETRY_ATTEMPTS

\* the 'transcription_failed' webhook, then the retry: lines 130-144
NotifyFailed(e, ret) ==
    /\ BagIn(e, execs) /\ e.pc = "failed"
    /\ ret \in Returns(e.snap.webhook_url)
    /\ returned' = ret
    /\ webhooks' = send_webhook(webhooks, e.job, e.snap.webhook_url,
                                e.snap.recording_id, "transcription_failed",
                                NULL, e.local)
    /\ queue' = IF ShouldRetry(e.snap.retry_count, e.retries)
                THEN Put(queue, Task(e.job, e.retries + 1,
                                     Countdown(e.snap.retry_count)))
                ELSE queue
    /\ execs' = Take(execs, e)
    /\ response' = NoResponse
    /\ UNCHANGED <<jobs, nextId, dups, enhanced_ai_jobs, limiter,
                   hook, rate_limit_storage>>

\* ---- cancellation -------------------------------------------------------
\* JobService.cancel_job and DELETE /api/v1/jobs/{job_id}
CanCancelCompleted(id) ==
    Found(id) /\ jobs[id].status \in {PENDING, PROCESSING, COMPLETED}

CanCancelAgain(id) ==
    Found(id) /\ jobs[id].status \in {PENDING, PROCESSING, CANCELLED}

CanCancel(id) ==
    Found(id) /\ jobs[id].status \in {PENDING, PROCESSING}

cancel_job(id) ==
    /\ IF CanCancel(id)
       THEN /\ jobs' = [jobs EXCEPT ![id].status = CANCELLED]
            /\ response' = [op |-> "cancel", id |-> id, code |-> 200]
       ELSE /\ UNCHANGED jobs
            /\ response' = [op |-> "cancel", id |-> id, code |-> 404]
    /\ returned' = NoCall
    /\ UNCHANGED <<nextId, queue, execs, webhooks, dups, enhanced_ai_jobs, limiter, hook>>

\* ---- redelivery ---------------------------------------------------------
\* the broker delivers a task message a second time (a message reserved by
\* a worker and not acknowledged within the visibility timeout is restored
\* to the queue; nothing in the task tells a second delivery from the first)
Redeliver(m) ==
    /\ BagIn(m, queue)
    /\ dups < MaxDup
    /\ dups' = dups + 1
    /\ queue' = Put(queue, m)
    /\ response' = NoResponse
    /\ returned' = NoCall
    /\ UNCHANGED <<jobs, nextId, execs, webhooks, hook, rate_limit_storage,
                   enhanced_ai_jobs, limiter>>

\* ---- the status query ----------------------------------------------------
\* GET /api/v1/jobs/{job_id}: what the handler answers in the current state;
\* it writes nothing
get_job_status_stored(id) ==
    IF ~Found(id) THEN [code |-> 404, detail |-> "Job not found"]
    ELSE [code |-> 200,
          body |-> [job_id |-> id, status |-> jobs[id].status,
                    progress |-> jobs[id].progress]
                   @@ (IF jobs[id].result # NULL
                       THEN [result |-> jobs[id].result] ELSE <<>>)
                   @@ (IF jobs[id].error_message # NULL
                       THEN [error |-> jobs[id].error_message] ELSE <<>>)]

get_job_status(id) ==
    IF ~Found(id) THEN [code |-> 404, detail |-> "Job not found"]
    ELSE [code |-> 200,
          body |-> [job_id |-> id, status |-> jobs[id].status,
                    progress |-> jobs[id].progress]
                   @@ (IF jobs[id].status = COMPLETED
                       THEN [result |-> jobs[id].result]
                       ELSE IF jobs[id].status = FAILED
                       THEN [error |-> jobs[id].error_message]
                       ELSE <<>>)]

\* ---- Enhanced AI jobs ----------------------------------------------------
\* the row JobService.create_enhanced_ai_job adds
EnhancedAIJob(id) == [transcription_job_id |-> id, status |-> PENDING]

\* POST /api/v1/enhanced-ai for the transcription job id; the task that
\* would process the new row is not submitted
create_enhanced_ai_job_any(id) ==
    /\ Len(enhanced_ai_jobs) < MaxEnhanced
    /\ IF ~Found(id)
       THEN /\ response' = [op |-> "enhance", id |-> id, code |-> 404]
            /\ UNCHANGED enhanced_ai_jobs
       ELSE /\ enhanced_ai_jobs' = Append(enhanced_ai_jobs, EnhancedAIJob(id))
            /\ response' = [op |-> "enhance", id |-> id, code |-> 200]
    /\ returned' = NoCall
    /\ UNCHANGED <<jobs, nextId, queue, execs, webhooks, dups, hook, limiter>>

create_enhanced_ai_job(id) ==
    /\ Len(enhanced_ai_jobs) < MaxEnhanced
    /\ IF ~Found(id)
       THEN /\ response' = [op |-> "enhance", id |-> id, code |-> 404]
            /\ UNCHANGED enhanced_ai_jobs
       ELSE IF jobs[id].status # COMPLETED
       THEN /\ response' = [op |-> "enhance", id |-> id, code |-> 400]
            /\ UNCHANGED enhanced_ai_jobs
       ELSE /\ enhanced_ai_jobs' = Append(enhanced_ai_jobs, EnhancedAIJob(id))
            /\ response' = [op |-> "enhance", id |-> id, code |-> 200]
    /\ returned' = NoCall
    /\ UNCHANGED <<jobs, nextId, queue, execs, webhooks, dups, hook, limiter>>

\* ---- the time limits of a task -----------------------------------------
\* str() of the exception of the soft time limit
TimeLimitError == "SoftTimeLimitExceeded()"

\* task_soft_time_limit: SoftTimeLimitExceeded is raised inside transcribe()
\* and caught by the except clause of the task like any other exception
SoftTimeLimit(e) == Fail(e, TimeLimitError)

\* task_time_limit: the worker process running the task is killed; no line
\* of the task runs any more, and its message was acknowledged when the
\* task started
HardTimeLimit(e) ==
    /\ BagIn(e, execs)
    /\ execs' = Take(execs, e)
    /\ response' = NoResponse
    /\ returned' = NoCall
    /\ UNCHANGED <<jobs, nextId, queue, webhooks, dups, enhanced_ai_jobs, limiter,
                   hook, rate_limit_storage>>

\* ---- the middleware and the dependency of the endpoints ----------------
RequestKeys == {"key_1", NULL}

\* verify_api_key: a request without the header X-API-Key is answered 401;
\* the keys of ApiKeys are keys the service accepts
verify_api_key(api_key, handler) ==
    IF api_key = NULL
    THEN /\ response' = [op |-> "auth", id |-> MalformedId, code |-> 401]
         /\ returned' = NoCall
         /\ UNCHANGED <<jobs, nextId, queue, execs, webhooks, dups, enhanced_ai_jobs, limiter, hook>>
    ELSE handler

\* line 41
DeniedLate(count) == count > RATE_LIMIT_REQUESTS

Denied(count) == count >= RATE_LIMIT_REQUESTS

\* rate_limit_middleware: elapsed says that more than RATE_LIMIT_PERIOD has
\* passed since the time stored with the count; call_next is the rest of
\* the request
rate_limit_middleware(api_key, elapsed, call_next) ==
    IF api_key = NULL
    THEN call_next /\ UNCHANGED rate_limit_storage
    ELSE LET count == IF elapsed THEN 0 ELSE rate_limit_storage[api_key]
         IN  IF Denied(count)
             THEN /\ response' = [op |-> "rate_limit", id |-> MalformedId,
                                  code |-> 429]
                  /\ returned' = NoCall
                  /\ UNCHANGED <<jobs, nextId, queue, execs, webhooks, dups, enhanced_ai_jobs, limiter,
                                 hook, rate_limit_storage>>
             ELSE /\ rate_limit_storage' =
                        [rate_limit_storage EXCEPT ![api_key] = count + 1]
                  /\ call_next

\* ---- the middleware line by line ----------------------------------------
\* what a request in the middleware leaves alone
served == <<jobs, nextId, queue, execs, webhooks, dups, enhanced_ai_jobs,
            hook>>

ExemptPaths == {"/health", "/metrics", "/docs", "/redoc", "/openapi.json"}

\* rate_limit_lock can be taken
FreeAlways(lock) == TRUE

Free(lock) == lock = NoHolder

\* line 36
Elapsed(t, timestamp) == t - timestamp > RATE_LIMIT_PERIOD

\* a request arrives, lines 24-30: an exempt path and a request without
\* the header go on to call_next, any other request waits for the lock
ArriveCounted(r, path, api_key) ==
    /\ requests[r].pc = "idle"
    /\ requests' = [requests EXCEPT ![r] =
            [@ EXCEPT !.path = path, !.api_key = api_key,
                      !.pc = IF api_key = NULL THEN "call_next" ELSE "lock"]]
    /\ response' = NoResponse
    /\ returned' = NoCall
    /\ UNCHANGED <<served, rate_limit_storage, rate_limit_timestamp,
                   rate_limit_lock, now>>

Arrive(r, path, api_key) ==
    /\ requests[r].pc = "idle"
    /\ requests' = [requests EXCEPT ![r] =
            [@ EXCEPT !.path = path, !.api_key = api_key,
                      !.pc = IF path \in ExemptPaths \/ api_key = NULL
                             THEN "call_next" ELSE "lock"]]
    /\ response' = NoResponse
    /\ returned' = NoCall
    /\ UNCHANGED <<served, rate_limit_storage, rate_limit_timestamp,
                   rate_limit_lock, now>>

\* lines 31-33: the lock is taken and the entry of the key is read; the
\* defaultdict stores (0, utcnow()) for a key it does not have
Acquire(r) ==
    /\ requests[r].pc = "lock"
    /\ Free(rate_limit_lock)
    /\ LET k == requests[r].api_key
           timestamp == IF rate_limit_timestamp[k] = NoTime THEN now
                        ELSE rate_limit_timestamp[k]
       IN  /\ rate_limit_timestamp' =
                  [rate_limit_timestamp EXCEPT ![k] = timestamp]
           /\ requests' = [requests EXCEPT ![r] =
                  [@ EXCEPT !.pc = "locked",
                            !.count = rate_limit_storage[k],
                            !.timestamp = timestamp]]
    /\ rate_limit_lock' = r
    /\ response' = NoResponse
    /\ returned' = NoCall
    /\ UNCHANGED <<served, rate_limit_storage, now>>

\* lines 36-45: the reset of the local count and timestamp, and the check;
\* the exception leaves the async with, which releases the lock
Check(r) ==
    /\ requests[r].pc = "locked"
    /\ LET q == requests[r]
           elapsed == Elapsed(now, q.timestamp)
           count == IF elapsed THEN 0 ELSE q.count
           timestamp == IF elapsed THEN now ELSE q.timestamp
       IN  IF Denied(count)
           THEN /\ requests' = [requests EXCEPT ![r] =
                       [@ EXCEPT !.pc = "rejected", !.count = count,
                                 !.timestamp = timestamp]]
                /\ rate_limit_lock' = NoHolder
                /\ response' = [op |-> "rate_limit", id |-> MalformedId,
                                code |-> 429]
           ELSE /\ requests' = [requests EXCEPT ![r] =
                       [@ EXCEPT !.pc = "checked", !.count = count,
                                 !.timestamp = timestamp]]
                /\ UNCHANGED rate_limit_lock
                /\ response' = NoResponse
    /\ returned' = NoCall
    /\ UNCHANGED <<served, rate_limit_storage, rate_limit_timestamp, now>>

\* line 48 and the end of the async with
Store(r) ==
    /\ requests[r].pc = "checked"
    /\ LET q == requests[r]
       IN  /\ rate_limit_storage' =
                  [rate_limit_storage EXCEPT ![q.api_key] = q.count + 1]
           /\ rate_limit_timestamp' =
                  [rate_limit_timestamp EXCEPT ![q.api_key] = q.timestamp]
    /\ requests' = [requests EXCEPT ![r].pc = "call_next"]
    /\ rate_limit_lock' = NoHolder
    /\ response' = NoResponse
    /\ returned' = NoCall
    /\ UNCHANGED <<served, now>>

\* lines 50-51, with an endpoint that writes nothing
CallNext(r) ==
    /\ requests[r].pc = "call_next"
    /\ requests' = [requests EXCEPT ![r].pc = "done"]
    /\ response' = [op |-> "call_next", id |-> MalformedId, code |-> 200]
    /\ returned' = NoCall
    /\ UNCHANGED <<served, rate_limit_storage, rate_limit_timestamp,
                   rate_limit_lock, now>>

\* the clock moves on
Tick ==
    /\ now < Epoch + MaxTicks * TickSeconds
    /\ now' = now + TickSeconds
    /\ response' = NoResponse
    /\ returned' = NoCall
    /\ UNCHANGED <<served, rate_limit_storage, rate_limit_timestamp,
                   rate_limit_lock, requests>>

\* ---- specifications -----------------------------------------------------
Messages == {Task(j, r, 60 * c) :
                j \in JobIds, r \in 0 .. MAX_RETRY_ATTEMPTS,
                c \in 0 .. MAX_RETRY_ATTEMPTS}

\* Spec and SpecDup leave the rate limiter and the validation of the body
\* out: their requests are requests the middleware admits, and a submission
\* is the example of the request model, with or without a webhook_url
Submit == \E url \in WebhookUrls, rec \in RecordingIds, up \in BOOLEAN :
            /\ create_transcription_job(ExampleEngine, ExampleUrl, FALSE,
                                        url, rec, up)
            /\ UNCHANGED rate_limit_storage
Deliver == \E m \in Messages : Start(m)
Started == \E e \in BagToSet(execs), ret \in {True, False} : NotifyStarted(e, ret)
Report == \E e \in BagToSet(execs), p \in ProgressValues : Progress(e, p)
Succeed == \E e \in BagToSet(execs), r \in Results : Complete(e, r)
Completed == \E e \in BagToSet(execs), ret \in {True, False} :
                NotifyCompleted(e, ret)
Raise == \E e \in BagToSet(execs), err \in Errors : Fail(e, err)
Failed == \E e \in BagToSet(execs), ret \in {True, False} : NotifyFailed(e, ret)
Worker == Started \/ Report \/ Succeed \/ Completed \/ Raise \/ Failed
Cancel == \E id \in RequestIds : cancel_job(id) /\ UNCHANGED rate_limit_storage
Duplicate == \E m \in Messages : Redeliver(m)

\* each task message is delivered once
Next == Submit \/ Deliver \/ Worker \/ Cancel

Spec == Init /\ [][Next]_vars

\* at-least-once delivery: a task message may be delivered twice
NextDup == Next \/ Duplicate

SpecDup == Init /\ [][NextDup]_vars

\* the time limits of Celery act on the executions
SoftLimit == \E e \in BagToSet(execs) : SoftTimeLimit(e)
HardLimit == \E e \in BagToSet(execs) : HardTimeLimit(e)

NextLimit == Next \/ SoftLimit \/ HardLimit

SpecLimit == Init /\ [][NextLimit]_vars

\* the job machine with requests for Enhanced AI processing; the jobs are
\* submitted without a webhook_url and the broker is up
SubmitPlain ==
    \E rec \in RecordingIds :
        /\ create_transcription_job(ExampleEngine, ExampleUrl, FALSE, NULL,
                                    rec, TRUE)
        /\ UNCHANGED rate_limit_storage

Enhance ==
    \E id \in RequestIds :
        create_enhanced_ai_job(id) /\ UNCHANGED rate_limit_storage

NextEnhanced == SubmitPlain \/ Deliver \/ Worker \/ Cancel \/ Enhance

SpecEnhanced == Init /\ [][NextEnhanced]_vars

\* the job machine under a fair broker and fair workers: a queued task
\* message is delivered, a worker that holds a task runs its next statement,
\* and transcribe() returns or raises; the jobs are submitted without a
\* webhook_url, the broker is up and no job is cancelled
NextFair == SubmitPlain \/ Deliver \/ Worker

Fairness ==
    /\ WF_vars(Deliver)
    /\ WF_vars(Started)
    /\ WF_vars(Succeed \/ Raise)
    /\ WF_vars(Completed)
    /\ WF_vars(Failed)

SpecFair == Init /\ [][NextFair]_vars /\ Fairness

\* one call of send_webhook against an endpoint that answers as it likes
\* the calls the task makes: lines 75-80, 108-113 and 131-137 of tasks.py
HookEvents ==
    {[status |-> "transcribing", text |-> NULL, error |-> NULL],
     [status |-> "transcribed", text |-> "segments text language",
      error |-> NULL],
     [status |-> "transcription_failed", text |-> NULL, error |-> "boom"]}

Call ==
    \E setting \in SecretSettings, env \in EnvSecrets, token \in BypassTokens,
       url \in WebhookUrls, rec \in RecordingIds, ev \in HookEvents,
       n \in 1 .. DEFAULT_MAX_ATTEMPTS :
        HookCall(setting, env, token, url, rec, ev.status, ev.text, ev.error, n)
Attempt == \E code \in Answers : HookPost(code)

NextHook == Call \/ Attempt \/ HookSleep

SpecHook == Init /\ [][NextHook]_vars

\* the requests of the API as they pass the middleware, no worker running
GateSubmit ==
    \E key \in RequestKeys, elapsed \in BOOLEAN, engine \in EngineNames,
       audio \in AudioUrls, upload \in BOOLEAN, url \in WebhookUrls,
       rec \in RecordingIds, up \in BOOLEAN :
        rate_limit_middleware(key, elapsed,
            verify_api_key(key,
                create_transcription_job(engine, audio, upload, url, rec, up)))
GateCancel ==
    \E key \in RequestKeys, elapsed \in BOOLEAN, id \in RequestIds :
        rate_limit_middleware(key, elapsed, verify_api_key(key, cancel_job(id)))

NextGate == GateSubmit \/ GateCancel

SpecGate == Init /\ [][NextGate]_vars

\* submissions statement by statement, with the worker; the broker holds
\* a task message of a job id for which the database has no row
OrphanId == MaxJobs + 1
Orphan == Task(OrphanId, 0, 0)

InitSubmit ==
    /\ jobs = <<>>
    /\ nextId = 1
    /\ queue = SetToBag({Orphan})
    /\ execs = EmptyBag
    /\ webhooks = EmptyBag
    /\ response = NoResponse
    /\ dups = 0
    /\ enhanced_ai_jobs = <<>>
    /\ returned = NoCall
    /\ hook = NoHook
    /\ rate_limit_storage = [k \in ApiKeys |-> 0]
    /\ rate_limit_timestamp = [k \in ApiKeys |-> NoTime]
    /\ rate_limit_lock = NoHolder
    /\ requests = [r \in Requests |-> NoRequest]
    /\ now = Epoch

Creating == \E r \in Requests, url \in WebhookUrls, rec \in RecordingIds :
               CreateRow(r, url, rec)
Dispatching == \E r \in Requests, up \in BOOLEAN : Dispatch(r, up)
Taking == \E m \in BagToSet(queue) : Start(m)

\* the attempts of SpecSubmit do not fail
NextSubmit ==
    Creating \/ Dispatching \/ Taking \/ Started \/ Report \/ Succeed
        \/ Completed \/ Cancel

SpecSubmit == InitSubmit /\ [][NextSubmit]_vars

\* concurrent requests in the middleware; a key starts with no entry, with
\* one request left in its window or with none left
StartCounts == {0, RATE_LIMIT_REQUESTS - 1, RATE_LIMIT_REQUESTS}

InitRate ==
    /\ jobs = <<>>
    /\ nextId = 1
    /\ queue = EmptyBag
    /\ execs = EmptyBag
    /\ webhooks = EmptyBag
    /\ response = NoResponse
    /\ dups = 0
    /\ enhanced_ai_jobs = <<>>
    /\ returned = NoCall
    /\ hook = NoHook
    /\ rate_limit_storage \in [ApiKeys -> StartCounts]
    /\ rate_limit_timestamp =
          [k \in ApiKeys |->
              IF rate_limit_storage[k] = 0 THEN NoTime ELSE Epoch]
    /\ rate_limit_lock = NoHolder
    /\ requests = [r \in Requests |-> NoRequest]
    /\ now = Epoch

Arrival == \E r \in Requests, path \in Paths, api_key \in ApiKeys \cup {NULL} :
              Arrive(r, path, api_key)
Locking == \E r \in Requests : Acquire(r)
Checking == \E r \in Requests : Check(r)
Storing == \E r \in Requests : Store(r)
Passing == \E r \in Requests : CallNext(r)

NextRate == Arrival \/ Locking \/ Checking \/ Storing \/ Passing \/ Tick

SpecRate == InitRate /\ [][NextRate]_vars

\* ---- properties ---------------------------------------------------------
Terminal == {COMPLETED, FAILED, CANCELLED}

\* the number of webhook events of a job sent with a status
Sent(sent, j, status) ==
    LET S == {x \in BagToSet(sent) : x.job = j /\ x.payload.status = status}
    IN  BagCardinality([x \in S |-> sent[x]])

\* the number of task messages of a job in the queue
Queued(q, j) ==
    LET S == {m \in BagToSet(q) : m.job = j}
    IN  BagCardinality([m \in S |-> q[m]])

\* the state machine of the specification, section 4.1
ValidStep(s, t) ==
    \/ s = t
    \/ s = PENDING /\ t \in {PROCESSING, CANCELLED}
    \/ s = PROCESSING /\ t \in {COMPLETED, FAILED, PENDING, CANCELLED}

\* C1: every change of a job's status is a transition of the state machine
\* PENDING -> PROCESSING -> {COMPLETED, FAILED, PENDING}, PENDING or
\* PROCESSING -> CANCELLED; in particular none leaves a terminal status
C1_ValidPath ==
    [][\A j \in DOMAIN jobs : ValidStep(jobs[j].status, jobs'[j].status)]_vars

\* C2: once a job is CANCELLED no step changes its status, its result or its
\* error message, and no further 'transcribed' webhook is sent for it
C2_CancelSticks ==
    [][\A j \in DOMAIN jobs :
        jobs[j].status = CANCELLED =>
            /\ jobs'[j].status = CANCELLED
            /\ jobs'[j].result = jobs[j].result
            /\ jobs'[j].error_message = jobs[j].error_message
            /\ Sent(webhooks', j, "transcribed") = Sent(webhooks, j, "transcribed")]_vars

\* C3: retry_count never exceeds MAX_RETRY_ATTEMPTS, and once it has reached
\* the maximum no further task message is enqueued for the job
C3_RetryBound ==
    [][\A j \in DOMAIN jobs :
        /\ jobs'[j].retry_count <= MAX_RETRY_ATTEMPTS
        /\ jobs[j].retry_count >= MAX_RETRY_ATTEMPTS =>
              Queued(queue', j) <= Queued(queue, j)]_vars

\* C4: a job that holds the terminal status, result or error written by one
\* execution is not given another terminal write by a second execution
C4_SingleTerminalWriter ==
    [][\A j \in DOMAIN jobs :
        (jobs[j].status \in {COMPLETED, FAILED}
            /\ jobs'[j].status \in {COMPLETED, FAILED}) =>
            /\ jobs'[j].status = jobs[j].status
            /\ jobs'[j].result = jobs[j].result
            /\ jobs'[j].error_message = jobs[j].error_message]_vars

\* C5: an execution that completes or fails while its job is already
\* COMPLETED, FAILED or CANCELLED leaves the row as it is
C5_StaleNoOp ==
    [][\A e \in BagToSet(execs) :
        (jobs[e.job].status \in Terminal
            /\ \/ \E r \in Results : Complete(e, r)
               \/ \E err \in Errors : Fail(e, err)) =>
            jobs' = jobs]_vars

\* C6: cancel_job on a PENDING job answers success and leaves it CANCELLED;
\* on a COMPLETED job, an unknown id or a malformed id it answers failure
\* and changes no row
C6_CancelOutcome ==
    [][\A id \in RequestIds :
        cancel_job(id) =>
            /\ (Found(id) /\ jobs[id].status = PENDING) =>
                  (response'.code = 200 /\ jobs'[id].status = CANCELLED)
            /\ (Found(id) /\ jobs[id].status = COMPLETED) =>
                  (response'.code = 404 /\ jobs' = jobs)
            /\ ~Found(id) => (response'.code = 404 /\ jobs' = jobs)]_vars

C6_Witness ==
    /\ response.op = "cancel" /\ response.code = 404
    /\ Found(response.id) /\ jobs[response.id].status = COMPLETED

\* C7: cancel_job answers success exactly when the job is PENDING or
\* PROCESSING at the call, and on a CANCELLED job it answers failure and
\* changes no row
C7_CancelIdempotent ==
    [][\A id \in RequestIds :
        cancel_job(id) =>
            /\ response'.code = 200 <=>
                  (Found(id) /\ jobs[id].status \in {PENDING, PROCESSING})
            /\ (Found(id) /\ jobs[id].status = CANCELLED) =>
                  (response'.code = 404 /\ jobs' = jobs)]_vars

C7_Witness ==
    /\ response.op = "cancel" /\ response.code = 404
    /\ Found(response.id) /\ jobs[response.id].status = CANCELLED

\* C8: the stored progress is in 0..100 and does not decrease from one state
\* to the next while the job stays PROCESSING
C8_ProgressMonotone ==
    [][\A j \in DOMAIN jobs :
        /\ jobs'[j].progress \in 0 .. 100
        /\ (jobs[j].status = PROCESSING /\ jobs'[j].status = PROCESSING) =>
              jobs'[j].progress >= jobs[j].progress]_vars

\* C9: a progress report for a job that is not PROCESSING changes no row
C9_ProgressIgnored ==
    [][\A e \in BagToSet(execs) :
        (jobs[e.job].status # PROCESSING
            /\ \E p \in ProgressValues : Progress(e, p)) =>
            jobs' = jobs]_vars

\* C10: a COMPLETED job has a result and no error message, a FAILED job an
\* error message and no result, a CANCELLED job neither
C10_ResultXorError ==
    \A j \in DOMAIN jobs :
        /\ jobs[j].status = COMPLETED =>
              (jobs[j].result # NULL /\ jobs[j].error_message = NULL)
        /\ jobs[j].status = FAILED =>
              (jobs[j].error_message # NULL /\ jobs[j].result = NULL)
        /\ jobs[j].status = CANCELLED =>
              (jobs[j].result = NULL /\ jobs[j].error_message = NULL)

\* the job has no task message in the queue and no execution under way
AtRest(j) == Queued(queue, j) = 0 /\ \A e \in BagToSet(execs) : e.job # j

\* C11: a job with a webhook_url that failed twice and then completed
\* (COMPLETED, retry_count 2, nothing left to run) has had exactly one
\* completion event and no failure event sent for it
C11_TwoFailuresThenSuccess ==
    \A j \in DOMAIN jobs :
        (jobs[j].webhook_url # NULL /\ AtRest(j)
            /\ jobs[j].status = COMPLETED /\ jobs[j].retry_count = 2) =>
            /\ Sent(webhooks, j, "transcribed") = 1
            /\ Sent(webhooks, j, "transcription_failed") = 0

\* C12: a job with a webhook_url whose three attempts all failed (FAILED,
\* nothing left to run) has had exactly one failure event sent for it, and
\* that event carries the stored error message
C12_ThreeFailures ==
    \A j \in DOMAIN jobs :
        (jobs[j].webhook_url # NULL /\ AtRest(j)
            /\ jobs[j].status = FAILED
            /\ jobs[j].retry_count = MAX_RETRY_ATTEMPTS) =>
            /\ Sent(webhooks, j, "transcription_failed") = 1
            /\ \A x \in BagToSet(webhooks) :
                  (x.job = j /\ x.payload.status = "transcription_failed") =>
                      x.payload.error = jobs[j].error_message

\* C13: a call of send_webhook for a job with a webhook_url changes no row
\* and leaves the execution where a successful delivery leaves it, also
\* when it returns False: after the 'transcribing' event the execution goes
\* on to transcribe, after the 'transcribed' event it ends with nothing
\* queued for a retry, and the 'transcription_failed' event changes no row
C13_DeliveryFailureHarmless ==
    [][\A e \in BagToSet(execs), ret \in {True, False} :
        e.snap.webhook_url # NULL =>
            /\ NotifyStarted(e, ret) =>
                  /\ jobs' = jobs
                  /\ execs' = Put(Take(execs, e),
                                  Step(e, "transcribing", e.snap, NULL))
            /\ NotifyCompleted(e, ret) =>
                  /\ jobs' = jobs
                  /\ queue' = queue
                  /\ execs' = Take(execs, e)
            /\ NotifyFailed(e, ret) =>
                  /\ jobs' = jobs
                  /\ execs' = Take(execs, e)]_vars

C13_Witness ==
    /\ returned = False
    /\ \E j \in DOMAIN jobs :
          /\ jobs[j].webhook_url # NULL /\ AtRest(j)
          /\ jobs[j].status = COMPLETED
          /\ Sent(webhooks, j, "transcribed") = 1

\* the places of the POSTs in the log of a call
PostsOf(log) == {i \in 1 .. Len(log) : log[i].ev = "post"}

Is2xx(code) == code \in 200 .. 299

\* C14: a call of send_webhook with a url makes at most max_attempts POSTs;
\* a POST answered 2xx is the last thing the call does; every POST not
\* answered 2xx is followed by a sleep and another POST unless it was the
\* max_attempts-th; the call returns True exactly when a POST was answered
\* 2xx, and returns False only after max_attempts POSTs; nothing is slept
\* after the last POST
C14_DeliveryLoop ==
    LET log == hook.log
        posts == PostsOf(log)
    IN  /\ Cardinality(posts) <= hook.max_attempts
        /\ \A i \in posts :
              Is2xx(log[i].code) => (i = Len(log) /\ hook.pc = "returned")
        /\ \A i \in posts :
              (~Is2xx(log[i].code) /\ hook.pc = "returned" /\ i = Len(log)) =>
                  Cardinality(posts) = hook.max_attempts
        /\ \A i \in 1 .. Len(log) - 1 :
              /\ log[i].ev = "post" => log[i + 1].ev = "sleep"
              /\ log[i].ev = "sleep" => log[i + 1].ev = "post"
        /\ (hook.pc = "returned" /\ hook.url # NULL) =>
              /\ hook.ret \in {True, False}
              /\ hook.ret = True <=> \E i \in posts : Is2xx(log[i].code)
              /\ hook.ret = False => Cardinality(posts) = hook.max_attempts
              /\ log[Len(log)].ev = "post"

\* C15: an execution is at "started", "completed" or "failed" from the
\* commit of a status until the send_webhook call that reports it has
\* returned. All that time the execution has the status of the event
\* committed and read back from the database: PROCESSING for
\* 'transcribing', COMPLETED and the result for 'transcribed', FAILED and
\* the error for 'transcription_failed'; the row holds the result and the
\* error, so an execution that stops at any point of a delivery leaves
\* them stored
C15_CommitBeforeNotify ==
    \A e \in BagToSet(execs) :
        /\ e.pc = "started" => e.snap.status = PROCESSING
        /\ e.pc = "completed" =>
              /\ e.snap.status = COMPLETED /\ e.snap.result # NULL
              /\ jobs[e.job].status = COMPLETED
              /\ jobs[e.job].result = e.snap.result
        /\ e.pc = "failed" =>
              /\ e.snap.status = FAILED /\ e.snap.error_message = e.local
              /\ jobs[e.job].status = FAILED
              /\ jobs[e.job].error_message = e.local

\* the three events of a job have been sent, the last of them undelivered,
\* and the row holds the result
C15_Witness ==
    /\ returned = False
    /\ \E j \in DOMAIN jobs :
          /\ jobs[j].result # NULL /\ jobs[j].transcription_text # NULL
          /\ AtRest(j)
          /\ Sent(webhooks, j, "transcribing") = 2
          /\ Sent(webhooks, j, "transcription_failed") = 1
          /\ Sent(webhooks, j, "transcribed") = 1

\* C16: no job is left PROCESSING with nothing that can still end it: a
\* PROCESSING job has an execution under way or a task message in the
\* queue, also after a time limit of the task has acted
C16_NoOrphanedProcessing ==
    \A j \in DOMAIN jobs : jobs[j].status = PROCESSING => ~AtRest(j)

\* C17: a submission that names an engine outside the supported set, or
\* that has neither a url nor file_upload, is answered with the validation
\* error and adds no row and no task message
C17_InvalidRejected ==
    [][\A engine \in EngineNames, audio \in AudioUrls, upload \in BOOLEAN,
          url \in WebhookUrls, rec \in RecordingIds, up \in BOOLEAN :
        (/\ engine \notin TranscriptionEngine \/ (audio = NULL /\ ~upload)
         /\ create_transcription_job(engine, audio, upload, url, rec, up)) =>
            /\ response'.code = 422
            /\ jobs' = jobs
            /\ queue' = queue]_vars

\* C18: a submission whose task could not be enqueued is answered 500, and
\* its row is there with status PENDING; a job that no worker has ever
\* started stays PENDING unless it is cancelled
C18_DispatchFailureReported ==
    /\ (response.op = "submit" /\ Found(response.id)) =>
          /\ Queued(queue, response.id) = 0 <=> response.code = 500
          /\ jobs[response.id].status = PENDING
    /\ \A j \in DOMAIN jobs :
          (AtRest(j) /\ jobs[j].started_at = NoTime) =>
              jobs[j].status \in {PENDING, CANCELLED}

C18_Witness ==
    /\ response.op = "submit" /\ response.code = 500
    /\ Found(response.id)
    /\ jobs[response.id].status = PENDING
    /\ AtRest(response.id)

\* C19: a request answered 429 adds no row and no task message, and a
\* submission that arrives when the count of its key has reached
\* RATE_LIMIT_REQUESTS within the period is answered 429
C19_DeniedCreatesNothing ==
    [][/\ response'.code = 429 =>
            (jobs' = jobs /\ nextId' = nextId /\ queue' = queue)
       /\ \A key \in ApiKeys, engine \in EngineNames, audio \in AudioUrls,
             upload \in BOOLEAN, url \in WebhookUrls, rec \in RecordingIds,
             up \in BOOLEAN :
            (/\ rate_limit_storage[key] >= RATE_LIMIT_REQUESTS
             /\ rate_limit_middleware(key, FALSE,
                    verify_api_key(key,
                        create_transcription_job(engine, audio, upload,
                                                 url, rec, up)))) =>
                /\ response'.code = 429
                /\ jobs' = jobs /\ nextId' = nextId /\ queue' = queue]_vars

\* a request is denied while a submission could still create a job
C19_Witness ==
    /\ response.code = 429
    /\ nextId \in JobIds
    /\ \E key \in ApiKeys : rate_limit_storage[key] = RATE_LIMIT_REQUESTS

\* C20: started_at of a job is first written by the step that sets the job
\* PROCESSING, and once it holds a time no later step changes it
C20_StartedAtOnce ==
    [][\A j \in DOMAIN jobs :
        /\ (jobs[j].started_at = NoTime /\ jobs'[j].started_at # NoTime) =>
              jobs'[j].status = PROCESSING
        /\ jobs[j].started_at # NoTime =>
              jobs'[j].started_at = jobs[j].started_at]_vars

\* C21: a job has completed_at set exactly when its status is COMPLETED,
\* FAILED or CANCELLED, and once set completed_at does not change
C21_CompletedAtOnce ==
    [][\A j \in DOMAIN jobs :
        /\ jobs'[j].status \in Terminal <=> jobs'[j].completed_at # NoTime
        /\ jobs[j].completed_at # NoTime =>
              jobs'[j].completed_at = jobs[j].completed_at]_vars

\* C22: the status FAILED is written only by a failure that leaves no retry
\* (retry_count has reached MAX_RETRY_ATTEMPTS), and a job that is FAILED
\* stays FAILED with no task message queued for it
C22_FailedIsFinal ==
    [][\A j \in DOMAIN jobs :
        /\ (jobs[j].status # FAILED /\ jobs'[j].status = FAILED) =>
              jobs'[j].retry_count >= MAX_RETRY_ATTEMPTS
        /\ jobs[j].status = FAILED =>
              (jobs'[j].status = FAILED /\ Queued(queue', j) = 0)]_vars

\* C23: each of the first three failures of a job is followed by a
\* re-dispatch, delayed by 60 s after the first, 120 s after the second and
\* 180 s after the third, and a later failure by none
C23_BackoffThreeRetries ==
    [][\A e \in BagToSet(execs), ret \in {True, False} :
        NotifyFailed(e, ret) =>
            IF e.snap.retry_count <= MAX_RETRY_ATTEMPTS
            THEN \E m \in BagToSet(queue') :
                    /\ m.job = e.job /\ ~BagIn(m, queue)
                    /\ m.countdown = 60 * e.snap.retry_count
            ELSE queue' = queue]_vars

\* C24: retry_count changes only by an increment of one, made by a failed
\* attempt that is retried; a failed attempt that is not retried leaves it
C24_RetryCountCountsRetries ==
    [][\A j \in DOMAIN jobs :
        jobs'[j].retry_count # jobs[j].retry_count =>
            /\ jobs'[j].retry_count = jobs[j].retry_count + 1
            /\ \E e \in BagToSet(execs') :
                  /\ e.job = j /\ e.pc = "failed"
                  /\ ShouldRetry(jobs'[j].retry_count, e.retries)]_vars

\* C25: every webhook event sent carries the recording_id of its job; it
\* has the field 'transcription' exactly when it announces the completion,
\* the field 'error' exactly when it announces a failure, and neither when
\* it announces the start of processing
C25_PayloadFields ==
    \A x \in BagToSet(webhooks) :
        /\ x.payload.status \in
              {"transcribing", "transcribed", "transcription_failed"}
        /\ "transcription" \in DOMAIN x.payload <=>
              x.payload.status = "transcribed"
        /\ "error" \in DOMAIN x.payload <=>
              x.payload.status = "transcription_failed"
        /\ x.payload.recording_id = jobs[x.job].recording_id

\* one job has had an event of each kind sent
C25_Witness ==
    \E j \in DOMAIN jobs :
        /\ Sent(webhooks, j, "transcribing") > 0
        /\ Sent(webhooks, j, "transcription_failed") > 0
        /\ Sent(webhooks, j, "transcribed") > 0

\* C26: the event that announces the completion of a job has exactly the
\* three fields correlation_id, status and transcription: the recording id
\* of the job, the status value "completed" and the stored transcription text
C26_CompletedPayload ==
    \A x \in BagToSet(webhooks) :
        "transcription" \in DOMAIN x.payload =>
            /\ DOMAIN x.payload = {"correlation_id", "status", "transcription"}
            /\ x.payload.correlation_id = jobs[x.job].recording_id
            /\ x.payload.status = "completed"
            /\ x.payload.transcription = jobs[x.job].transcription_text

Pending(j, pc) ==
    LET S == {e \in BagToSet(execs) : e.job = j /\ e.pc = pc}
    IN  BagCardinality([e \in S |-> execs[e]])

\* C28: no request is made for a job without webhook_url, and send_webhook
\* returns True only where some job has one; for a job with webhook_url
\* the events are one 'transcribing' per start of an attempt, one
\* 'transcribed' for the completion and one 'transcription_failed' per
\* failed attempt, counting the one about to be sent, and no event of
\* another kind
C28_OneEventPerTransition ==
    /\ returned = True => \E j \in DOMAIN jobs : jobs[j].webhook_url # NULL
    /\ \A x \in BagToSet(webhooks) :
          x.payload.status \in
              {"transcribing", "transcribed", "transcription_failed"}
    /\ \A j \in DOMAIN jobs :
          IF jobs[j].webhook_url = NULL
          THEN \A x \in BagToSet(webhooks) : x.job # j
          ELSE /\ Sent(webhooks, j, "transcribing") + Pending(j, "started")
                    = jobs[j].started_at
               /\ Sent(webhooks, j, "transcribed") + Pending(j, "completed")
                    = IF jobs[j].result # NULL THEN 1 ELSE 0
               /\ Sent(webhooks, j, "transcription_failed")
                    + Pending(j, "failed") = jobs[j].retry_count

\* a job without webhook_url has completed after a failed attempt, and
\* nothing was sent
C28_Witness ==
    \E j \in DOMAIN jobs :
        /\ jobs[j].webhook_url = NULL /\ AtRest(j)
        /\ jobs[j].status = COMPLETED /\ jobs[j].retry_count > 0
        /\ webhooks = EmptyBag

\* C29: a job with status COMPLETED has its result and its transcription
\* text stored and progress 100
C29_CompletedIsWhole ==
    \A j \in DOMAIN jobs :
        jobs[j].status = COMPLETED =>
            /\ jobs[j].result # NULL
            /\ jobs[j].transcription_text # NULL
            /\ jobs[j].progress = 100

\* C30: the status query answers 404 for an id that is malformed or names
\* no job; for a job it answers 200 with the status, with the field
\* 'result' (the stored result) exactly when the status is COMPLETED and
\* the field 'error' (the stored error message) exactly when it is FAILED
C30_StatusQuery ==
    \A id \in RequestIds :
        LET r == get_job_status(id)
        IN  IF id \notin DOMAIN jobs THEN r.code = 404
            ELSE /\ r.code = 200
                 /\ r.body.status = jobs[id].status
                 /\ "result" \in DOMAIN r.body <=> jobs[id].status = COMPLETED
                 /\ "error" \in DOMAIN r.body <=> jobs[id].status = FAILED
                 /\ jobs[id].status = COMPLETED =>
                       r.body.result = jobs[id].result
                 /\ jobs[id].status = FAILED =>
                       r.body.error = jobs[id].error_message

\* a job is PROCESSING again with the error message of a failed attempt
\* stored, and the query shows no error
C30_Witness ==
    \E j \in DOMAIN jobs :
        /\ jobs[j].status = PROCESSING /\ jobs[j].error_message # NULL
        /\ DOMAIN get_job_status(j).body = {"job_id", "status", "progress"}

\* C31: a request for Enhanced AI processing is answered 404 when the
\* transcription job does not exist and 400 when its status is not
\* COMPLETED, and then no Enhanced AI job is added; otherwise one Enhanced
\* AI job is added, for that transcription job and with status PENDING;
\* nothing else adds or changes an Enhanced AI job
C31_EnhancedOnlyCompleted ==
    [][/\ \A id \in RequestIds :
            (response'.op = "enhance" /\ response'.id = id) =>
                IF id \notin DOMAIN jobs
                THEN /\ response'.code = 404
                     /\ enhanced_ai_jobs' = enhanced_ai_jobs
                ELSE IF jobs[id].status # COMPLETED
                THEN /\ response'.code = 400
                     /\ enhanced_ai_jobs' = enhanced_ai_jobs
                ELSE /\ response'.code = 200
                     /\ enhanced_ai_jobs' = Append(enhanced_ai_jobs,
                            [transcription_job_id |-> id, status |-> PENDING])
       /\ enhanced_ai_jobs' # enhanced_ai_jobs =>
            (response'.op = "enhance" /\ response'.code = 200)]_vars

\* an Enhanced AI job has just been created for a COMPLETED job
C31_Witness ==
    /\ response.op = "enhance" /\ response.code = 200
    /\ Len(enhanced_ai_jobs) = 1
    /\ jobs[enhanced_ai_jobs[1].transcription_job_id].status = COMPLETED

\* C32: the count of a key never exceeds RATE_LIMIT_REQUESTS; it changes
\* only in the step that admits a request of that key, which adds one to
\* the stored count or, when more than RATE_LIMIT_PERIOD seconds have
\* passed since the stored time, restarts the window with count one; the
\* stored time of a window changes only by such a restart
C32_WindowCount ==
    [][\A k \in ApiKeys :
        LET admitted == {r \in Requests :
                            /\ requests[r].pc = "checked"
                            /\ requests'[r].pc = "call_next"
                            /\ requests[r].api_key = k}
            restart == now - rate_limit_timestamp[k] > RATE_LIMIT_PERIOD
        IN  /\ rate_limit_storage'[k] <= RATE_LIMIT_REQUESTS
            /\ admitted # {} =>
                  \/ /\ rate_limit_storage'[k] = rate_limit_storage[k] + 1
                     /\ rate_limit_timestamp'[k] = rate_limit_timestamp[k]
                  \/ /\ restart
                     /\ rate_limit_storage'[k] = 1
                     /\ rate_limit_timestamp'[k] > rate_limit_timestamp[k]
            /\ admitted = {} =>
                  /\ rate_limit_storage'[k] = rate_limit_storage[k]
                  /\ rate_limit_timestamp[k] # NoTime =>
                        rate_limit_timestamp'[k] = rate_limit_timestamp[k]]_vars

\* two requests of one key met at the last place of its window: one was
\* admitted and has been served, the other was rejected
C32_Witness ==
    \E k \in ApiKeys, r1, r2 \in Requests :
        /\ rate_limit_storage[k] = RATE_LIMIT_REQUESTS
        /\ requests[r1].api_key = k /\ requests[r1].pc = "done"
        /\ requests[r1].path \notin ExemptPaths
        /\ requests[r2].api_key = k /\ requests[r2].pc = "rejected"

\* C33: a step of a request to an exempt path or without an API key, and
\* the step that rejects a request with 429, change the count and the
\* stored time of no key; a rejected request has read a count of
\* RATE_LIMIT_REQUESTS or more, so it is not a request for which the entry
\* of its key was first stored; a step of a request changes the count and
\* the stored time of no key but its own
C33_Frame ==
    [][\A r \in Requests :
        requests'[r] # requests[r] =>
            LET q == requests'[r]
                same == /\ rate_limit_storage' = rate_limit_storage
                        /\ rate_limit_timestamp' = rate_limit_timestamp
            IN  /\ (q.path \in ExemptPaths \/ q.api_key = NULL) => same
                /\ response'.code = 429 <=> q.pc = "rejected"
                /\ q.pc = "rejected" =>
                      /\ same
                      /\ q.count >= RATE_LIMIT_REQUESTS
                      /\ q.count = requests[r].count
                /\ (q.pc = "locked" /\ ~same) => q.count = 0
                /\ \A k \in ApiKeys \ {q.api_key} :
                      /\ rate_limit_storage'[k] = rate_limit_storage[k]
                      /\ rate_limit_timestamp'[k] = rate_limit_timestamp[k]]_vars

\* a request has been rejected while a request to an exempt path and a
\* request of another key were in flight
C33_Witness ==
    \E r1, r2 \in Requests :
        /\ requests[r1].pc = "rejected"
        /\ requests[r2].pc \in {"call_next", "done"}
        /\ requests[r2].path \in ExemptPaths
        /\ requests[r2].api_key \in ApiKeys \ {requests[r1].api_key}

\* C34: a task message of a job id that a submission has used is queued
\* only while the row of that job exists, and every execution has a row;
\* the message a submission queues is the first message of the job whose
\* row the same request has created; a worker that takes a message finds
\* the row and sets it PROCESSING, or finds no row and then changes no row,
\* starts no execution, sends no webhook and queues nothing
C34_RowBeforeTask ==
    [][/\ \A m \in BagToSet(queue') :
            m.job \in 1 .. nextId' - 1 => m.job \in DOMAIN jobs'
       /\ \A e \in BagToSet(execs') : e.job \in DOMAIN jobs'
       /\ \A r \in Requests :
            (requests[r].pc = "created" /\ requests'[r].pc = "done") =>
                /\ requests[r].job \in DOMAIN jobs
                /\ response'.id = requests[r].job
                /\ response'.code = 200 =>
                      queue' = queue (+) SetToBag({[job |-> requests[r].job,
                                  retries |-> 0, countdown |-> 0]})
                /\ response'.code # 200 => queue' = queue
       /\ \A m \in BagToSet(queue) :
            (queue' = queue (-) SetToBag({m}) /\ queue' # queue) =>
                IF m.job \in DOMAIN jobs
                THEN jobs'[m.job].status = PROCESSING
                ELSE /\ jobs' = jobs /\ execs' = execs
                     /\ webhooks' = webhooks]_vars

\* the message without a row has been taken, and the task of a submitted
\* job has been started by a worker
C34_Witness ==
    /\ ~BagIn(Orphan, queue)
    /\ \E e \in BagToSet(execs) : e.job \in DOMAIN jobs
    /\ \E r \in Requests : requests[r].pc = "done"


\* C35: under a fair broker and fair workers, and with no cancellation, a
\* job whose task message is queued or running is later COMPLETED or FAILED
\* with nothing left to run; a job that is COMPLETED or FAILED with nothing
\* left to run stays so; and the attempts of a job run one at a time, each
\* numbered below MAX_RETRY_ATTEMPTS, so that no job has more than
\* MAX_RETRY_ATTEMPTS attempts
Ended(j) == AtRest(j) /\ jobs[j].status \in {COMPLETED, FAILED}

Attempts(j) ==
    {m \in BagToSet(queue) : m.job = j} \cup
        {Task(e.job, e.retries, 0) : e \in {x \in BagToSet(execs) : x.job = j}}

====
